---- MODULE Spec2Model ----
(***************************************************************************)
(* Garden-monitor dashboard (src/dashboard.py): the windowed fetch and its *)
(* 60-second result cache, the uncached latest-reading fetch, the pH       *)
(* sentinel/null shaping and the three per-channel range classifiers.      *)
(*                                                                         *)
(* Units: time in seconds; pH as a count of tenths (60 is the literal 6.0,  *)
(* the sentinel -1 is -10), turned into a Python float where the script    *)
(* computes with it; humidity in percent; light in lux.                    *)
(* An optional value is a sequence: << >> is None/null, <<v>> is v.        *)
(***************************************************************************)
EXTENDS Integers, Sequences, FiniteSets

VARIABLES
    now,         \* wall clock, seconds
    ticks,       \* clock advances so far (bounds the run)
    store,       \* rows of table sensor_readings, in insertion order
    up,          \* whether a remote call can complete
    cache,       \* st.cache_data entries of fetch_data, keyed by hours
    qlog,        \* history: per hours, the last completed store query, while less
                 \* than 60 s old and not followed by an invalidation
    queried,     \* history: whether the last fetch_data call hit the store
    pc,          \* per session, the position of its script run
    time_range,  \* per session, the selectbox value
    ranges,      \* per session, the six number_input values
    df,          \* per session, the script's df
    latest       \* per session, the script's latest

vars == <<now, ticks, store, up, cache, qlog, queried, pc, time_range, ranges, df, latest>>

----------------------------------------------------------------------------
(* Bounds of the model *)

MaxTicks == 3
MaxRows == 2
PhSpan == 8
HumSpanK == 11
LightMaxK == 10

(* Program constants *)

TTL == 60
SecondsPerHour == 3600
PhSentinel == -10
PhTolerance == 5
HumidityTolerance == 10
TableRows == 20
PhInputMax == 140
HumidityInputMax == 100
HumidityStep == 5
LightInputMax == 100000

None == << >>
Some(v) == <<v>>

Sessions == {"A", "B"}

Options == <<1, 6, 12, 24, 48, 72>>
DefaultOption == Options[4]
\* the window sizes the model's sessions select: 1 hour and the default, 24 hours
Windows == {Options[1], Options[4]}

DefaultRanges ==
    [ph_min |-> 60, ph_max |-> 75,
     humidity_min |-> 60, humidity_max |-> 100,
     light_min |-> 1000, light_max |-> 10000]

\* clock advances: half a TTL, and one hour
TickSteps == {30, SecondsPerHour}
\* how far behind the clock an inserted row's read_at may be
Lags == {0, SecondsPerHour}

----------------------------------------------------------------------------
(* Query layer *)

Max(a, b) == IF a >= b THEN a ELSE b
Min(a, b) == IF a <= b THEN a ELSE b

RECURSIVE InsertSorted(_, _)
InsertSorted(r, s) ==
    IF s = << >> THEN <<r>>
    ELSE IF r.read_at < Head(s).read_at THEN <<r>> \o s
    ELSE <<Head(s)>> \o InsertSorted(r, Tail(s))

\* .order('read_at', desc=False): ascending by read_at
RECURSIVE OrderByReadAt(_)
OrderByReadAt(rows) ==
    IF rows = << >> THEN << >>
    ELSE InsertSorted(rows[Len(rows)], OrderByReadAt(SubSeq(rows, 1, Len(rows) - 1)))

Cutoff(t, hours) == t - hours * SecondsPerHour

\* mutant: the filter written .lte instead of .gte
InWindowLte(r, t, hours) == r.read_at <= Cutoff(t, hours)

InWindow(r, t, hours) == r.read_at >= Cutoff(t, hours)

\* the store query of fetch_data: rows with read_at >= cutoff, ascending
FetchWindow(rows, t, hours) ==
    OrderByReadAt(SelectSeq(rows, LAMBDA r : InWindow(r, t, hours)))

RowSet(rows) == {rows[i] : i \in 1..Len(rows)}

\* mutant: order('read_at', desc=False), the oldest row first
GetLatestAscending(rows) ==
    IF rows = << >> THEN {None}
    ELSE {Some(r) : r \in {x \in RowSet(rows) :
                             \A y \in RowSet(rows) : x.read_at <= y.read_at}}

\* mutant: limit(1) with no order, any row
GetLatestUnordered(rows) ==
    IF rows = << >> THEN {None} ELSE {Some(r) : r \in RowSet(rows)}

\* the store query of get_latest_reading: order desc, limit 1; the store
\* picks among rows that tie on read_at
GetLatestQuery(rows) ==
    IF rows = << >> THEN {None}
    ELSE {Some(r) : r \in {x \in RowSet(rows) :
                             \A y \in RowSet(rows) : x.read_at >= y.read_at}}

----------------------------------------------------------------------------
(* Result cache: @st.cache_data(ttl=60), one entry per argument value,     *)
(* shared by every session of the process                                  *)

\* mutant: an entry still served at exactly TTL seconds
AliveThroughTTL(e, t) == t - e.at <= TTL

\* an entry made at e.at is served while less than TTL seconds old
Alive(e, t) == t - e.at < TTL

CacheValid(c, h, t) == c[h] # None /\ Alive(c[h][1], t)

EmptyCache == [h \in Windows |-> None]

\* the entries of c still served at time t (the library drops an expired
\* entry lazily, which no caller can observe)
Expire(c, t) ==
    [h \in Windows |-> IF CacheValid(c, h, t) THEN c[h] ELSE None]

ClearCache(c) == EmptyCache

----------------------------------------------------------------------------
Init ==
    /\ now = 0
    /\ ticks = 0
    /\ store = << >>
    /\ up = TRUE
    /\ cache = EmptyCache
    /\ qlog = [h \in Windows |-> None]
    /\ queried = FALSE
    /\ pc = [s \in Sessions |-> "start"]
    /\ time_range = [s \in Sessions |-> DefaultOption]
    /\ ranges = [s \in Sessions |-> DefaultRanges]
    /\ df = [s \in Sessions |-> << >>]
    /\ latest = [s \in Sessions |-> None]

(* Environment *)

Tick(d) ==
    /\ ticks < MaxTicks
    /\ now' = now + d
    /\ ticks' = ticks + 1
    /\ cache' = Expire(cache, now + d)
    /\ qlog' = [h \in Windows |->
                  IF qlog[h] # None /\ now + d < qlog[h][1].at + 60
                  THEN qlog[h] ELSE None]
    /\ UNCHANGED <<store, up, queried, pc, time_range, ranges, df, latest>>

\* the sensor device appends a row
Insert(lag, ph, humidity, light) ==
    /\ Len(store) < MaxRows
    /\ lag <= now
    /\ store' = Append(store, [id |-> Len(store) + 1, read_at |-> now - lag,
                               ph |-> ph, humidity |-> humidity, light |-> light])
    /\ UNCHANGED <<now, ticks, up, cache, qlog, queried, pc, time_range, ranges, df, latest>>

StoreDown ==
    /\ up
    /\ up' = FALSE
    /\ UNCHANGED <<now, ticks, store, cache, qlog, queried, pc, time_range, ranges, df, latest>>

StoreUp ==
    /\ ~up
    /\ up' = TRUE
    /\ UNCHANGED <<now, ticks, store, cache, qlog, queried, pc, time_range, ranges, df, latest>>

(* A script run of session s *)

\* mutant: the call wrapped in try/except that answers "no rows"
ExecuteSwallowed(reachable, rows) ==
    [raised |-> FALSE, data |-> IF reachable THEN rows ELSE << >>]

\* .execute(): the remote call returns the rows, or raises when it cannot
\* complete; nothing in the script catches the exception
Execute(reachable, rows) ==
    IF reachable THEN [raised |-> FALSE, data |-> rows]
    ELSE [raised |-> TRUE, data |-> << >>]

\* a rerun starts the script again from the top
Restart(s) ==
    /\ pc' = [pc EXCEPT ![s] = "start"]
    /\ df' = [df EXCEPT ![s] = << >>]
    /\ latest' = [latest EXCEPT ![s] = None]

\* df = fetch_data(time_range)
FetchData(s) ==
    /\ pc[s] = "start"
    /\ LET h == time_range[s] IN
       IF CacheValid(cache, h, now)
       THEN /\ df' = [df EXCEPT ![s] = cache[h][1].data]
            /\ pc' = [pc EXCEPT ![s] = "fetched"]
            /\ queried' = FALSE
            /\ UNCHANGED <<cache, qlog>>
       ELSE LET response == Execute(up, FetchWindow(store, now, h)) IN
            /\ queried' = TRUE
            /\ IF response.raised
               THEN /\ pc' = [pc EXCEPT ![s] = "failed"]
                    /\ UNCHANGED <<df, cache, qlog>>
               ELSE /\ df' = [df EXCEPT ![s] = response.data]
                    /\ pc' = [pc EXCEPT ![s] = "fetched"]
                    /\ cache' = [cache EXCEPT
                                   ![h] = Some([at |-> now, data |-> response.data])]
                    /\ qlog' = [qlog EXCEPT
                                  ![h] = Some([at |-> now, data |-> response.data])]
    /\ UNCHANGED <<now, ticks, store, up, time_range, ranges, latest>>

\* latest = get_latest_reading()
GetLatest(s) ==
    /\ pc[s] = "fetched"
    /\ \E r \in GetLatestQuery(store) :
          LET response == Execute(up, r) IN
          IF response.raised
          THEN /\ pc' = [pc EXCEPT ![s] = "failed"]
               /\ UNCHANGED latest
          ELSE /\ latest' = [latest EXCEPT ![s] = response.data]
               /\ pc' = [pc EXCEPT ![s] = "done"]
    /\ UNCHANGED <<now, ticks, store, up, cache, qlog, queried, time_range, ranges, df>>

\* the selectbox: a new value reruns the script
SelectTimeRange(s, h) ==
    /\ h # time_range[s]
    /\ time_range' = [time_range EXCEPT ![s] = h]
    /\ Restart(s)
    /\ UNCHANGED <<now, ticks, store, up, cache, qlog, queried, ranges>>

\* a number_input: a new value reruns the script
EditRange(s, f, v) ==
    /\ v # ranges[s][f]
    /\ ranges' = [ranges EXCEPT ![s][f] = v]
    /\ Restart(s)
    /\ UNCHANGED <<now, ticks, store, up, cache, qlog, queried, time_range>>

\* the refresh button: st.cache_data.clear() and st.rerun()
Refresh(s) ==
    /\ cache' = ClearCache(cache)
    /\ qlog' = [h \in Windows |-> None]
    /\ Restart(s)
    /\ UNCHANGED <<now, ticks, store, up, queried, time_range, ranges>>

----------------------------------------------------------------------------
(* What a finished run shows *)

(* Python floats (IEEE-754 binary64, round to nearest, ties to even) for    *)
(* the pH arithmetic.  A pH of the model is a count of tenths n, standing   *)
(* for the decimal literal n/10 as typed into number_input or sent by the   *)
(* store.  A non-negative double below 16 is kept exactly, as the integer   *)
(* value * 2^56 held in three limbs of 20 bits, least significant first.    *)

Limb == 1048576

BigOf(n) == <<n, 0, 0>>

\* x * c, for a small c
BigTimes(x, c) ==
    LET d0 == x[1] * c
        d1 == x[2] * c + d0 \div Limb
        d2 == x[3] * c + d1 \div Limb
    IN <<d0 % Limb, d1 % Limb, d2>>

\* x * 2^k, for a result below 2^60
BigShl(x, k) ==
    LET r == k % 20
        y == BigTimes(BigTimes(x, 2^(r \div 2)), 2^(r - r \div 2))
    IN IF k < 20 THEN y
       ELSE IF k < 40 THEN <<0, y[1], y[2]>>
       ELSE <<0, 0, y[1]>>

BigAdd(x, y) ==
    LET d0 == x[1] + y[1]
        d1 == x[2] + y[2] + d0 \div Limb
        d2 == x[3] + y[3] + d1 \div Limb
    IN <<d0 % Limb, d1 % Limb, d2>>

BigLess(x, y) ==
    \/ x[3] < y[3]
    \/ x[3] = y[3] /\ x[2] < y[2]
    \/ x[3] = y[3] /\ x[2] = y[2] /\ x[1] < y[1]

BigLeq(x, y) == x = y \/ BigLess(x, y)

\* x - y, for y <= x
BigSub(x, y) ==
    LET b0 == IF x[1] < y[1] THEN 1 ELSE 0
        d0 == x[1] - y[1] + b0 * Limb
        b1 == IF x[2] - b0 < y[2] THEN 1 ELSE 0
        d1 == x[2] - b0 - y[2] + b1 * Limb
    IN <<d0, d1, x[3] - b1 - y[3]>>

\* quotient and remainder of x by 10
BigDivMod10(x) ==
    LET t1 == (x[3] % 10) * Limb + x[2]
        t0 == (t1 % 10) * Limb + x[1]
    IN [q |-> <<t0 \div 10, t1 \div 10, x[3] \div 10>>, r |-> t0 % 10]

BitLength(n) == CHOOSE b \in 0..20 : n < 2^b /\ (b = 0 \/ 2^(b - 1) <= n)

BigBitLength(x) ==
    IF x[3] > 0 THEN 40 + BitLength(x[3])
    ELSE IF x[2] > 0 THEN 20 + BitLength(x[2])
    ELSE BitLength(x[1])

\* x rounded to 53 significant bits, ties to even
RoundToDouble(x) ==
    LET s == BigBitLength(x) - 53 IN
    IF s <= 0 THEN x
    ELSE LET low == x[1] % 2^s
             down == BigSub(x, BigOf(low))
             above == BigAdd(down, BigOf(2^s))
             odd == (x[1] \div 2^s) % 2 = 1
         IN IF 2 * low > 2^s \/ (2 * low = 2^s /\ odd) THEN above ELSE down

\* float("n/10"): the double nearest to n/10, for 0 <= n < 160
ToDouble(n) ==
    IF n = 0 THEN BigOf(0)
    ELSE LET k == CHOOSE j \in 0..7 : 10 * 2^j <= 16 * n /\ 16 * n < 20 * 2^j
             d == BigDivMod10(BigShl(BigOf(n), 56 - k))
             m == IF 2 * d.r > 10 \/ (2 * d.r = 10 /\ d.q[1] % 2 = 1)
                  THEN BigAdd(d.q, BigOf(1)) ELSE d.q
         IN BigShl(m, k)

\* the double 0.5
Half == BigShl(BigOf(1), 55)

\* a signed double: x - 0.5 and x + 0.5 as Python computes them
FloatMinusHalf(x) ==
    IF BigLeq(Half, x) THEN [neg |-> FALSE, mag |-> RoundToDouble(BigSub(x, Half))]
    ELSE [neg |-> TRUE, mag |-> RoundToDouble(BigSub(Half, x))]

FloatPlusHalf(x) == [neg |-> FALSE, mag |-> RoundToDouble(BigAdd(x, Half))]

Float(x) == [neg |-> FALSE, mag |-> x]

\* a <= b on signed doubles
FloatLeq(a, b) ==
    IF a.neg /\ b.neg THEN BigLeq(b.mag, a.mag)
    ELSE IF a.neg THEN TRUE
    ELSE IF b.neg THEN a.mag = BigOf(0) /\ b.mag = BigOf(0)
    ELSE BigLeq(a.mag, b.mag)

FloatLess(a, b) == ~FloatLeq(b, a)

----------------------------------------------------------------------------
(* The indicators *)

\* ph_value is not None and ph_value != -1
PhEnabled(ph) == ph # None /\ ph[1] # PhSentinel

\* the tenths below 16.0: every pH input and reading of the model
Tenths == 0..159

\* the floats the script computes with: a value, ph_min - 0.5, ph_max + 0.5
PhFloat == [n \in Tenths |-> Float(ToDouble(n))]
PhMinusHalf == [n \in 0..PhInputMax |-> FloatMinusHalf(ToDouble(n))]
PhPlusHalf == [n \in 0..PhInputMax |-> FloatPlusHalf(ToDouble(n))]

\* the pH indicator: st.success, st.warning or st.error; ph_min, ph_max and
\* ph_value are floats, and ph_min - 0.5 and ph_max + 0.5 float arithmetic
ClassifyPh(v, lo, hi) ==
    IF FloatLeq(PhFloat[lo], PhFloat[v]) /\ FloatLeq(PhFloat[v], PhFloat[hi])
    THEN "success"
    ELSE IF \/ /\ FloatLeq(PhMinusHalf[lo], PhFloat[v])
                /\ FloatLess(PhFloat[v], PhFloat[lo])
            \/ /\ FloatLess(PhFloat[hi], PhFloat[v])
                /\ FloatLeq(PhFloat[v], PhPlusHalf[hi])
    THEN "warning"
    ELSE "error"

\* mutant: a tolerance band above the maximum too
ClassifyHumidityBothSides(v, lo, hi) ==
    IF lo <= v /\ v <= hi THEN "success"
    ELSE IF (lo - HumidityTolerance <= v /\ v < lo)
            \/ (hi < v /\ v <= hi + HumidityTolerance) THEN "warning"
    ELSE "error"

\* the humidity indicator: st.success, st.warning or st.error
ClassifyHumidity(v, lo, hi) ==
    IF lo <= v /\ v <= hi THEN "success"
    ELSE IF lo - HumidityTolerance <= v /\ v < lo THEN "warning"
    ELSE "error"

\* mutant: the low-light test made before the too-intense test
ClassifyLightLowFirst(v, lo, hi) ==
    IF lo <= v /\ v <= hi THEN "success"
    ELSE IF v < lo THEN "info"
    ELSE "warning"

\* the light indicator: st.success, st.warning (too intense) or st.info (low light)
ClassifyLight(v, lo, hi) ==
    IF lo <= v /\ v <= hi THEN "success"
    ELSE IF v > hi THEN "warning"
    ELSE "info"

\* the live panel of the latest reading; the metric "--" and status
\* "placeholder" stand for a disabled pH
LivePanel(lat, rg) ==
    IF lat = None THEN [notice |-> "no_data"]
    ELSE LET r == lat[1] IN
         [notice |-> "none",
          ph_metric |-> IF PhEnabled(r.ph) THEN r.ph ELSE None,
          ph |-> IF PhEnabled(r.ph)
                 THEN ClassifyPh(r.ph[1], rg.ph_min, rg.ph_max)
                 ELSE "placeholder",
          humidity |-> ClassifyHumidity(r.humidity, rg.humidity_min, rg.humidity_max),
          light |-> ClassifyLight(r.light, rg.light_min, rg.light_max)]

\* mutant: the sentinel left in place, only nulls normalised
ShapeNullOnly(rows) == rows

\* df.loc[(df['ph'] == -1) | (df['ph'].isna()), 'ph'] = None
Shape(rows) ==
    [i \in 1..Len(rows) |->
        [rows[i] EXCEPT !.ph = IF @ = None \/ @ = Some(PhSentinel) THEN None ELSE @]]

\* (df['ph'].notna()) & (df['ph'] != -1)
PhValid(r) == r.ph # None /\ r.ph[1] # PhSentinel

\* df_ph, the rows of the pH trend chart
DfPh(sdf) == SelectSeq(sdf, PhValid)

\* df_ph_stats, the rows of the pH statistics
DfPhStats(sdf) == SelectSeq(sdf, PhValid)

RECURSIVE Sum(_)
Sum(xs) == IF xs = << >> THEN 0 ELSE Head(xs) + Sum(Tail(xs))

RECURSIVE SeqMin(_)
SeqMin(xs) == IF Len(xs) = 1 THEN xs[1] ELSE Min(Head(xs), SeqMin(Tail(xs)))

RECURSIVE SeqMax(_)
SeqMax(xs) == IF Len(xs) = 1 THEN xs[1] ELSE Max(Head(xs), SeqMax(Tail(xs)))

\* mean, min and max of a non-empty column; the mean is kept as sum and count
Statistics(xs) == [sum |-> Sum(xs), count |-> Len(xs), min |-> SeqMin(xs), max |-> SeqMax(xs)]

PhStatistics(sdf) ==
    LET d == DfPhStats(sdf) IN
    IF d = << >> THEN None ELSE Some(Statistics([i \in 1..Len(d) |-> d[i].ph[1]]))

HumidityStatistics(sdf) == Statistics([i \in 1..Len(sdf) |-> sdf[i].humidity])

LightStatistics(sdf) == Statistics([i \in 1..Len(sdf) |-> sdf[i].light])

\* df.tail(n)
DfTail(rows, n) == SubSeq(rows, Max(1, Len(rows) - n + 1), Len(rows))

\* "--" if pd.isna(x) else f"{x:.2f}"
PhCell(ph) == IF ph = None THEN <<"--">> ELSE <<"%.2f", ph[1]>>

\* df_display, the recent-records table
RecentTable(sdf) ==
    LET d == DfTail(sdf, TableRows) IN
    [i \in 1..Len(d) |->
        [read_at |-> d[i].read_at, ph |-> PhCell(d[i].ph),
         humidity |-> d[i].humidity, light |-> d[i].light]]

\* the trends, statistics and table section of a run whose window is rows
Trends(rows) ==
    IF rows = << >> THEN [notice |-> "no_data_period"]
    ELSE LET sdf == Shape(rows) IN
         [notice |-> "none",
          ph_chart |-> DfPh(sdf),
          humidity_chart |-> [i \in 1..Len(sdf) |-> [id |-> sdf[i].id, y |-> sdf[i].humidity]],
          light_chart |-> [i \in 1..Len(sdf) |-> [id |-> sdf[i].id, y |-> sdf[i].light]],
          ph_stats |-> PhStatistics(sdf),
          humidity_stats |-> HumidityStatistics(sdf),
          light_stats |-> LightStatistics(sdf),
          table |-> RecentTable(sdf)]

\* what session s's run ended with: the exception of a failed remote call,
\* or the page
Page(s) ==
    IF pc[s] = "failed" THEN [outcome |-> "exception"]
    ELSE [outcome |-> "page",
          live |-> LivePanel(latest[s], ranges[s]),
          trends |-> Trends(df[s])]

\* what fetch_data(h) returns when called in the current state with the
\* store reachable
Returned(h) ==
    IF CacheValid(cache, h, now) THEN cache[h][1].data ELSE FetchWindow(store, now, h)

----------------------------------------------------------------------------
(* The dashboard with one session: clock, sensor, store outages *)

MainPh == {65}
MainHumidity == {55}
MainLight == {5000}

Next ==
    \/ \E d \in TickSteps : Tick(d)
    \/ \E lag \in Lags, ph \in MainPh, hu \in MainHumidity, li \in MainLight :
          Insert(lag, Some(ph), hu, li)
    \/ StoreDown
    \/ StoreUp
    \/ FetchData("A")
    \/ GetLatest("A")
    \/ \E h \in Windows : SelectTimeRange("A", h)
    \/ Refresh("A")

Spec == Init /\ [][Next]_vars

----------------------------------------------------------------------------
(* Properties of the one-session dashboard *)

FetchStep(s) == pc[s] = "start" /\ pc'[s] # "start"
LatestStep(s) == pc[s] = "fetched" /\ pc'[s] \in {"done", "failed"}

\* C1: a fetch_data(h) call made less than 60 s after the last completed
\* store query for h, with no invalidation since, returns that query's result
\* and issues no store query; any other call (60 s elapsed, or an
\* invalidation since, or no earlier query) issues a store query.  Each h has
\* its own entry.
C1_CacheContract ==
    [][\A s \in Sessions :
         FetchStep(s) =>
            LET h == time_range[s] IN
            IF qlog[h] # None /\ now - qlog[h][1].at < 60
            THEN /\ ~queried'
                 /\ pc'[s] = "fetched"
                 /\ df'[s] = qlog[h][1].data
            ELSE queried']_vars

\* a cache hit 30 s after the query, returning a window the store has outgrown
C1_Witness ==
    /\ pc["A"] = "fetched"
    /\ ~queried
    /\ cache[time_range["A"]] # None
    /\ now - cache[time_range["A"]][1].at = 30
    /\ df["A"] = cache[time_range["A"]][1].data
    /\ df["A"] # FetchWindow(store, now, time_range["A"])

\* C3 as stated: at any instant, fetch_data(W1) is contained in fetch_data(W2)
\* for W1 <= W2, whatever the cache holds
C3_Containment ==
    \A w1 \in Windows, w2 \in Windows :
        w1 <= w2 => RowSet(Returned(w1)) \subseteq RowSet(Returned(w2))

\* C3 amended: when neither call is served from the cache, so that both query
\* the store at the same instant, fetch_data(W1) is contained in fetch_data(W2)
C3_FreshContainment ==
    \A w1 \in Windows, w2 \in Windows :
        (w1 <= w2 /\ ~CacheValid(cache, w1, now) /\ ~CacheValid(cache, w2, now))
           => RowSet(Returned(w1)) \subseteq RowSet(Returned(w2))

\* both windows miss the cache; one row is in both, one only in the larger
C3_Witness ==
    /\ \A h \in Windows : ~CacheValid(cache, h, now)
    /\ \E w1 \in Windows, w2 \in Windows :
          /\ w1 < w2
          /\ Returned(w1) # << >>
          /\ RowSet(Returned(w2)) \ RowSet(Returned(w1)) # {}

\* C8: a remote call that cannot complete ends the run with the exception,
\* never with an empty window or None; a call that completes with no rows
\* gives the empty window / None and the run shows the matching no-data
\* notice; a window with rows or a present latest reading shows no notice.
C8_FailureVersusNoData ==
    [][\A s \in Sessions :
         /\ FetchStep(s) =>
               LET h == time_range[s]
                   matching == {r \in RowSet(store) : r.read_at >= now - h * 3600}
               IN IF queried' /\ ~up
                  THEN /\ pc'[s] = "failed"
                       /\ Page(s)'.outcome = "exception"
                  ELSE /\ pc'[s] = "fetched"
                       /\ queried' => (df'[s] = << >> <=> matching = {})
         /\ LatestStep(s) =>
               IF ~up
               THEN /\ pc'[s] = "failed"
                    /\ Page(s)'.outcome = "exception"
               ELSE /\ pc'[s] = "done"
                    /\ Page(s)'.outcome = "page"
                    /\ latest'[s] = None <=> store = << >>
                    /\ Page(s)'.live.notice = "no_data" <=> store = << >>
                    /\ Page(s)'.trends.notice = "no_data_period" <=> df[s] = << >>]_vars

\* a run ended by the exception while the store holds rows
C8_Witness ==
    /\ pc["A"] = "failed"
    /\ ~up
    /\ store # << >>
    /\ Page("A").outcome = "exception"

\* C9: every get_latest_reading call queries the store: with the store
\* reachable it returns None when the store is empty and otherwise a row of
\* the store with the greatest read_at, whatever the fetch_data cache holds;
\* with the store unreachable the run fails.
C9_LatestIsFresh ==
    [][\A s \in Sessions :
         LatestStep(s) =>
            IF up
            THEN /\ pc'[s] = "done"
                 /\ latest'[s] = None <=> store = << >>
                 /\ latest'[s] # None =>
                       /\ latest'[s][1] \in RowSet(store)
                       /\ \A y \in RowSet(store) : y.read_at <= latest'[s][1].read_at
            ELSE pc'[s] = "failed"]_vars

\* the window came from the cache and the latest reading is a newer row the
\* cached window does not hold
C9_Witness ==
    /\ pc["A"] = "done"
    /\ ~queried
    /\ latest["A"] # None
    /\ latest["A"][1] \notin RowSet(df["A"])
    /\ InWindow(latest["A"][1], now, time_range["A"])

\* C10: in a finished run with a non-empty window, the latest reading is
\* present and its read_at is at least that of every reading of the window
C10_LatestCoversWindow ==
    \A s \in Sessions :
        (pc[s] = "done" /\ df[s] # << >>) =>
            /\ latest[s] # None
            /\ \A i \in 1..Len(df[s]) : latest[s][1].read_at >= df[s][i].read_at

\* a finished run whose window holds a row inserted after the latest reading
\* but read earlier
C10_Witness ==
    /\ pc["A"] = "done"
    /\ latest["A"] # None
    /\ \E i \in 1..Len(df["A"]) :
          /\ df["A"][i].id > latest["A"][1].id
          /\ df["A"][i].read_at < latest["A"][1].read_at

----------------------------------------------------------------------------
(* The dashboard served to two sessions of one process *)

SharedEdits == {55, 60}

NextShared ==
    \/ \E d \in TickSteps : Tick(d)
    \/ \E ph \in MainPh, hu \in MainHumidity, li \in MainLight : Insert(0, Some(ph), hu, li)
    \/ \E s \in Sessions : FetchData(s)
    \/ \E s \in Sessions : GetLatest(s)
    \/ \E s \in Sessions, h \in Windows : SelectTimeRange(s, h)
    \/ \E s \in Sessions, v \in SharedEdits : EditRange(s, "humidity_min", v)
    \/ \E s \in Sessions : Refresh(s)

SpecShared == Init /\ [][NextShared]_vars

\* a step taken by session a
ActsAs(a) ==
    \/ FetchData(a)
    \/ GetLatest(a)
    \/ Refresh(a)
    \/ \E h \in Windows : SelectTimeRange(a, h)
    \/ \E v \in SharedEdits : EditRange(a, "humidity_min", v)

\* C2: no step of one session changes, for any window size, the sequence
\* another session's next fetch_data call returns, nor the ranges the other
\* session classifies with
C2_SessionIsolation ==
    [][\A a \in Sessions, b \in Sessions :
         (a # b /\ ActsAs(a)) =>
            /\ \A h \in Windows : Returned(h)' = Returned(h)
            /\ ranges'[b] = ranges[b]]_vars

----------------------------------------------------------------------------
(* pH shaping: readings with null, sentinel and valid pH, one session *)

ShapePh == {None, Some(PhSentinel), Some(65), Some(72)}
ShapeHumidity == {40, 70}
ShapeLight == {5000}

NextShape ==
    \/ \E ph \in ShapePh, hu \in ShapeHumidity, li \in ShapeLight : Insert(0, ph, hu, li)
    \/ FetchData("A")
    \/ GetLatest("A")
    \/ Refresh("A")

SpecShape == Init /\ [][NextShape]_vars

Disabled(r) == r.ph = None \/ r.ph = Some(PhSentinel)

\* C7: in a finished run, a reading whose ph is -1 or null gets the
\* placeholder and no classification as the latest reading, is absent from
\* the pH chart and the pH statistics and shows "--" in the table; every
\* other reading is in the chart and the statistics and shows its value in
\* the table; the chart and the statistics rest on the same rows; every
\* reading contributes to the humidity and light charts and statistics.
C7_PhDisabledEverywhere ==
    \A s \in Sessions :
        pc[s] = "done" =>
            LET raw == df[s]
                page == Page(s)
                enabled == SelectSeq(raw, LAMBDA r : ~Disabled(r))
                phs == [i \in 1..Len(enabled) |-> enabled[i].ph[1]]
            IN /\ latest[s] # None =>
                     /\ page.live.ph = "placeholder" <=> Disabled(latest[s][1])
                     /\ page.live.ph_metric = None <=> Disabled(latest[s][1])
               /\ raw # << >> =>
                     /\ page.trends.ph_chart = enabled
                     /\ DfPhStats(Shape(raw)) = page.trends.ph_chart
                     /\ page.trends.ph_stats = None <=> enabled = << >>
                     /\ enabled # << >> =>
                           page.trends.ph_stats =
                              Some([sum |-> Sum(phs), count |-> Len(phs),
                                    min |-> SeqMin(phs), max |-> SeqMax(phs)])
                     /\ Len(page.trends.humidity_chart) = Len(raw)
                     /\ \A i \in 1..Len(raw) :
                           /\ page.trends.humidity_chart[i] =
                                 [id |-> raw[i].id, y |-> raw[i].humidity]
                           /\ page.trends.light_chart[i] =
                                 [id |-> raw[i].id, y |-> raw[i].light]
                     /\ page.trends.humidity_stats.count = Len(raw)
                     /\ page.trends.light_stats.count = Len(raw)
                     /\ LET table == page.trends.table
                            off == Len(raw) - Len(table)
                        IN /\ Len(table) = Min(Len(raw), TableRows)
                           /\ \A i \in 1..Len(table) :
                                 table[i].ph =
                                    IF Disabled(raw[off + i]) THEN <<"--">>
                                    ELSE <<"%.2f", raw[off + i].ph[1]>>

\* a finished run whose window holds a sentinel row and a valid row and whose
\* latest reading is the sentinel row
C7_Witness ==
    /\ pc["A"] = "done"
    /\ latest["A"] # None
    /\ latest["A"][1].ph = Some(PhSentinel)
    /\ Page("A").live.ph = "placeholder"
    /\ \E i \in 1..Len(df["A"]) : df["A"][i].ph = Some(PhSentinel)
    /\ Len(Page("A").trends.ph_chart) = 1
    /\ \E i \in 1..Len(df["A"]) : Page("A").trends.table[i].ph = <<"--">>

----------------------------------------------------------------------------
(* The classifiers: one stored reading and the ranges drawn from bounded   *)
(* sets, the ranges edited between runs                                    *)

Reading(ph, humidity, light) ==
    [id |-> 1, read_at |-> 0, ph |-> ph, humidity |-> humidity, light |-> light]

InitWith(row, rg) ==
    /\ now = 0
    /\ ticks = 0
    /\ store = <<row>>
    /\ up = TRUE
    /\ cache = EmptyCache
    /\ qlog = [h \in Windows |-> None]
    /\ queried = FALSE
    /\ pc = [s \in Sessions |-> "start"]
    /\ time_range = [s \in Sessions |-> DefaultOption]
    /\ ranges = [s \in Sessions |-> IF s = "A" THEN rg ELSE DefaultRanges]
    /\ df = [s \in Sessions |-> << >>]
    /\ latest = [s \in Sessions |-> None]

\* pH, in tenths
PhInputs ==
    {x \in 0..PhInputMax :
        DefaultRanges.ph_min <= x /\ x <= DefaultRanges.ph_max + PhSpan}
PhReadings ==
    (DefaultRanges.ph_min - PhTolerance - 2)
       .. (DefaultRanges.ph_max + PhSpan + PhTolerance + 2)

InitPh ==
    \E ph \in {Some(v) : v \in PhReadings} \cup {Some(PhSentinel), None},
       lo \in PhInputs, hi \in PhInputs :
        InitWith(Reading(ph, 65, 5000),
                 [DefaultRanges EXCEPT !.ph_min = lo, !.ph_max = hi])

NextPh ==
    \/ FetchData("A")
    \/ GetLatest("A")
    \/ \E v \in PhInputs : EditRange("A", "ph_min", v)
    \/ \E v \in PhInputs : EditRange("A", "ph_max", v)

SpecPh == InitPh /\ [][NextPh]_vars

\* C4: for an enabled pH v and any (ph_min, ph_max): success (Optimal)
\* exactly when ph_min <= v <= ph_max; warning (Acceptable) exactly when v is
\* not Optimal and ph_min - 0.5 <= v < ph_min or ph_max < v <= ph_max + 0.5;
\* error (OutOfRange) in every other case; with (6.0, 7.5): 7.0 Optimal,
\* 5.9 Acceptable, 5.4 OutOfRange.
C4_PhClassification ==
    \A s \in Sessions :
        (pc[s] = "done" /\ latest[s] # None /\ ~Disabled(latest[s][1])) =>
            LET v == latest[s][1].ph[1]
                lo == ranges[s].ph_min
                hi == ranges[s].ph_max
                st == Page(s).live.ph
                optimal == lo <= v /\ v <= hi
                acceptable == /\ ~optimal
                              /\ \/ (lo - 5 <= v /\ v < lo)
                                 \/ (hi < v /\ v <= hi + 5)
            IN /\ st \in {"success", "warning", "error"}
               /\ st = "success" <=> optimal
               /\ st = "warning" <=> acceptable
               /\ st = "error" <=> (~optimal /\ ~acceptable)
               /\ (lo = 60 /\ hi = 75 /\ v = 70) => st = "success"
               /\ (lo = 60 /\ hi = 75 /\ v = 59) => st = "warning"
               /\ (lo = 60 /\ hi = 75 /\ v = 54) => st = "error"

\* humidity, in percent
HumidityInputs ==
    {x \in 0..HumidityInputMax :
        \E k \in 0..HumSpanK : x = HumidityInputMax - HumidityStep * k}
HumidityReadings == 0..HumidityInputMax

InitHumidity ==
    \E v \in HumidityReadings, lo \in HumidityInputs, hi \in HumidityInputs :
        InitWith(Reading(Some(65), v, 5000),
                 [DefaultRanges EXCEPT !.humidity_min = lo, !.humidity_max = hi])

NextHumidity ==
    \/ FetchData("A")
    \/ GetLatest("A")
    \/ \E v \in HumidityInputs : EditRange("A", "humidity_min", v)
    \/ \E v \in HumidityInputs : EditRange("A", "humidity_max", v)

SpecHumidity == InitHumidity /\ [][NextHumidity]_vars

\* C5 as stated: success exactly when min <= v <= max; warning exactly when
\* min - 10 <= v < min; error otherwise, which includes every v below
\* min - 10 and every v above max
C5_HumidityAsStated ==
    \A s \in Sessions :
        (pc[s] = "done" /\ latest[s] # None) =>
            LET v == latest[s][1].humidity
                lo == ranges[s].humidity_min
                hi == ranges[s].humidity_max
                st == Page(s).live.humidity
            IN /\ st = "success" <=> (lo <= v /\ v <= hi)
               /\ st = "warning" <=> (lo - 10 <= v /\ v < lo)
               /\ st = "error" <=> ~(lo <= v /\ v <= hi) /\ ~(lo - 10 <= v /\ v < lo)
               /\ v < lo - 10 => st = "error"
               /\ v > hi => st = "error"

\* C5 amended: success exactly when min <= v <= max; warning exactly when
\* min - 10 <= v < min; error otherwise, which includes every v below
\* min - 10 and every v above max that is not below min; with (60, 100):
\* 65 success, 55 warning, 49 error.
C5_HumidityClassification ==
    \A s \in Sessions :
        (pc[s] = "done" /\ latest[s] # None) =>
            LET v == latest[s][1].humidity
                lo == ranges[s].humidity_min
                hi == ranges[s].humidity_max
                st == Page(s).live.humidity
            IN /\ st \in {"success", "warning", "error"}
               /\ st = "success" <=> (lo <= v /\ v <= hi)
               /\ st = "warning" <=> (lo - 10 <= v /\ v < lo)
               /\ st = "error" <=> ~(lo <= v /\ v <= hi) /\ ~(lo - 10 <= v /\ v < lo)
               /\ v < lo - 10 => st = "error"
               /\ (v > hi /\ v >= lo) => st = "error"
               /\ (lo = 60 /\ hi = 100 /\ v = 65) => st = "success"
               /\ (lo = 60 /\ hi = 100 /\ v = 55) => st = "warning"
               /\ (lo = 60 /\ hi = 100 /\ v = 49) => st = "error"

\* humidity 55 with minimum 60 above maximum 50: above the maximum, yet
\* in the tolerance band below the minimum
C5_Witness ==
    /\ pc["A"] = "done"
    /\ latest["A"] # None
    /\ latest["A"][1].humidity = 55
    /\ ranges["A"].humidity_min = 60
    /\ ranges["A"].humidity_max = 50
    /\ Page("A").live.humidity = "warning"

\* light, in lux
LightInputs == {x \in 0..LightInputMax : \E k \in 0..LightMaxK : x = 1000 * k}
LightReadings ==
    {x \in 0..LightInputMax : \E c \in LightInputs : x \in {c - 1, c, c + 1}}
       \cup {500, 15000}

InitLight ==
    \E v \in LightReadings, lo \in LightInputs, hi \in LightInputs :
        InitWith(Reading(Some(65), 65, v),
                 [DefaultRanges EXCEPT !.light_min = lo, !.light_max = hi])

NextLight ==
    \/ FetchData("A")
    \/ GetLatest("A")
    \/ \E v \in LightInputs : EditRange("A", "light_min", v)
    \/ \E v \in LightInputs : EditRange("A", "light_max", v)

SpecLight == InitLight /\ [][NextLight]_vars

\* C6 as stated: success exactly when min <= v <= max, warning (TooIntense)
\* exactly when v > max, info (LowLight) exactly when v < min, never error
C6_LightAsStated ==
    \A s \in Sessions :
        (pc[s] = "done" /\ latest[s] # None) =>
            LET v == latest[s][1].light
                lo == ranges[s].light_min
                hi == ranges[s].light_max
                st == Page(s).live.light
            IN /\ st \in {"success", "warning", "info"}
               /\ st = "success" <=> (lo <= v /\ v <= hi)
               /\ st = "warning" <=> v > hi
               /\ st = "info" <=> v < lo

\* C6 amended: success exactly when min <= v <= max, warning (TooIntense)
\* exactly when v > max, info (LowLight) exactly when v < min and v <= max,
\* never error; with (1000, 10000): 15000 warning, 500 info, 5000 success.
C6_LightClassification ==
    \A s \in Sessions :
        (pc[s] = "done" /\ latest[s] # None) =>
            LET v == latest[s][1].light
                lo == ranges[s].light_min
                hi == ranges[s].light_max
                st == Page(s).live.light
            IN /\ st \in {"success", "warning", "info"}
               /\ st = "success" <=> (lo <= v /\ v <= hi)
               /\ st = "warning" <=> v > hi
               /\ st = "info" <=> (v < lo /\ v <= hi)
               /\ (lo = 1000 /\ hi = 10000 /\ v = 15000) => st = "warning"
               /\ (lo = 1000 /\ hi = 10000 /\ v = 500) => st = "info"
               /\ (lo = 1000 /\ hi = 10000 /\ v = 5000) => st = "success"

\* light 5000 with minimum 10000 above maximum 1000: below the minimum, yet
\* shown as too intense
C6_Witness ==
    /\ pc["A"] = "done"
    /\ latest["A"] # None
    /\ latest["A"][1].light = 5000
    /\ ranges["A"].light_min = 10000
    /\ ranges["A"].light_max = 1000
    /\ Page("A").live.light = "warning"

====
